---- MODULE Spec2Model ----
(***************************************************************************)
(* SynHash (src/SynHash.c): the Xorshift128X bit mixer on the two global   *)
(* 64-bit words s0 and s1, hashBlock over up to 8 bytes, the 256-bit hash  *)
(* over 32-byte zero-padded blocks, and hammingDistance over two digests.  *)
(*                                                                         *)
(* A uint64_t is modelled exactly, as the sequence of its eight bytes, the  *)
(* least significant first: xor is bytewise, a shift moves the bits across *)
(* the bytes and drops those that leave the word, and + carries from byte  *)
(* to byte and drops the carry out of the top byte.                        *)
(***************************************************************************)
EXTENDS Integers, Sequences, FiniteSets, TLC

\* ------------------------------------------------------------------ bounds

\* Message lengths are taken around the block boundaries 32, 64, ... up to
\* this many full blocks.
MaxBlocks == 1

\* How many times a run calls hashBlock directly.
MaxDirect == 2

\* How many times a caller is preempted in the middle of a hash call.
MaxPreempt == 1

\* ------------------------------------------------------- program constants

\* Width of uint64_t.
W == 64

subBlockSize == 8

blockSize == subBlockSize * 4

Bits == 0 .. (W - 1)

\* --------------------------------------------------- 64-bit word arithmetic

\* A word is its W / 8 bytes, the least significant first.
Limbs == W \div 8

Byte == 0 .. 255

Zero == [q \in 1 .. Limbs |-> 0]

\* Bit p (0 = least significant) of word a.
Bit(a, p) == (a[(p \div 8) + 1] \div (2 ^ (p % 8))) % 2

RECURSIVE XorBits(_, _, _)
XorBits(x, y, n) ==
    IF n = 0 THEN 0
    ELSE ((x + y) % 2) + 2 * XorBits(x \div 2, y \div 2, n - 1)

\* x ^ y on bytes, tabulated.
XorByte == [x \in Byte |-> [y \in Byte |-> XorBits(x, y, 8)]]

\* a ^ b.
Xor(a, b) == [q \in 1 .. Limbs |-> XorByte[a[q]][b[q]]]

\* a << n: the bits shifted beyond bit W-1 are dropped.
Shl(a, n) ==
    LET d == n \div 8
        r == n % 8
    IN  [q \in 1 .. Limbs |->
            (IF q - d >= 1 THEN (a[q - d] * (2 ^ r)) % 256 ELSE 0)
          + (IF q - d - 1 >= 1 THEN a[q - d - 1] \div (2 ^ (8 - r)) ELSE 0)]

\* a >> n: zeros are shifted in.
Shr(a, n) ==
    LET d == n \div 8
        r == n % 8
    IN  [q \in 1 .. Limbs |->
            (IF q + d <= Limbs THEN a[q + d] \div (2 ^ r) ELSE 0)
          + (IF q + d + 1 <= Limbs THEN (a[q + d + 1] * (2 ^ (8 - r))) % 256 ELSE 0)]

\* The carry into byte q of a + b.
RECURSIVE CarryInto(_, _, _)
CarryInto(a, b, q) ==
    IF q = 1 THEN 0
    ELSE (a[q - 1] + b[q - 1] + CarryInto(a, b, q - 1)) \div 256

\* a + b modulo 2^W: the carry out of the top byte is dropped.
Add(a, b) == [q \in 1 .. Limbs |-> (a[q] + b[q] + CarryInto(a, b, q)) % 256]

\* A byte widened to 64 bits.
Widen(x) == [q \in 1 .. Limbs |-> IF q = 1 THEN x ELSE 0]

\* 0x5555555555555555 and 0xaaaaaaaaaaaaaaaa.
Seed0 == [q \in 1 .. Limbs |-> 85]

Seed1 == [q \in 1 .. Limbs |-> 170]

\* ---------------------------------------------------------------- the mixer

\* As Xorshift128X, with the roles of s0 and s1 in the update exchanged.
Xorshift128XExchanged(st0, st1, x) ==
    LET c  == Shl(x, 30)
        b  == st1
        a  == st0
        result == Add(a, b)
        n0 == Xor(a, c)
        b2 == Xor(b, Shl(b, 23))
        n1 == Xor(Xor(Xor(b2, a), Shr(b2, 18)), Shr(a, 5))
    IN  [result |-> result, s0 |-> n0, s1 |-> n1]

\* Xorshift128X(x) on the state (st0, st1): the returned value and the state
\* it leaves, local by local as in the source.
Xorshift128X(st0, st1, x) ==
    LET c  == Shl(x, 30)
        b  == st0
        a  == st1
        result == Add(a, b)
        n0 == Xor(a, c)
        b2 == Xor(b, Shl(b, 23))
        n1 == Xor(Xor(Xor(b2, a), Shr(b2, 18)), Shr(a, 5))
    IN  [result |-> result, s0 |-> n0, s1 |-> n1]

\* ------------------------------------------------------------------- inputs

\* Byte idx (0-based) of the sample text: never zero.
PatByte(idx) == ((idx * 37 + 101) % 255) + 1

Pat(n) == [q \in 1 .. n |-> PatByte(q - 1)]

Zeros(n) == [q \in 1 .. n |-> 0]

\* Lengths 0 and 1 and the lengths around each block boundary.
Lengths == {0, 1} \cup {b * blockSize + d : b \in 1 .. MaxBlocks, d \in {-1, 0, 1}}

\* The sample text cut at each length, as it is and followed by one zero byte.
Messages == {Pat(n) \o Zeros(z) : n \in Lengths, z \in {0, 1}}

\* The blocks given to direct hashBlock calls: up to 8 bytes, all zero or
\* the start of the sample text.
DirectBlocks == {Zeros(n) : n \in 0 .. subBlockSize} \cup {Pat(n) : n \in 0 .. subBlockSize}

\* The messages of the two concurrent callers.
ConcMessages == {Zeros(0), Pat(1)}

\* What a read past the end of the message may yield.
JunkBytes == {0, 255}

Threads == {1, 2}

\* -------------------------------------------------------------------- state

VARIABLES
    s0,      \* static uint64_t s0
    s1,      \* static uint64_t s1
    th,      \* per caller: the locals of hash and of hashBlock, and its position
    mix,     \* history: the latest write of s0 and s1 (who, how, from which state)
    ref,     \* history: a message and the digest one completed hash call gave it
    hd,      \* the frame of hammingDistance
    sched    \* which caller runs, how often one was preempted, direct calls made

vars == <<s0, s1, th, mix, ref, hd, sched>>

NoRef == [set |-> FALSE, message |-> <<>>, output |-> <<>>, stale |-> FALSE]

NoMix == [by |-> 0, kind |-> "none", x |-> Zero, pre0 |-> Zero, pre1 |-> Zero,
          result |-> Zero]

Idle ==
    [pc |-> "idle", caller |-> "none",
     message |-> <<>>, length |-> 0, numBlocks |-> 0, i |-> 0,
     blockLength |-> 0, paddedBlock |-> <<>>, k |-> 0,
     blockHash |-> <<>>, finalHash |-> <<>>, output |-> <<>>,
     block |-> <<>>, len |-> 0, j |-> 0, result |-> Zero,
     \* history
     reads |-> {}, blocks |-> 0, calls |-> <<>>, acc |-> <<>>, outs |-> <<>>,
     stuck |-> FALSE, tainted |-> FALSE]

NoHd ==
    [pc |-> "idle", hex1 |-> <<>>, hex2 |-> <<>>, bin1 |-> <<>>, bin2 |-> <<>>,
     i |-> 0, distance |-> 0, outcome |-> "none"]

NoSched == [cur |-> 1, preempts |-> 0, direct |-> 0]

\* As StaticS0, with the seed of hash as the initializer.
StaticS0Seeded == Seed0

\* static uint64_t s0 = 0, s1 = 0: the state the program starts in.
StaticS0 == Zero

StaticS1 == Zero

\* ------------------------------------------------------------------- hash

\* As NumBlocks, rounding by "+ 1" in place of "+ blockSize - 1".
NumBlocksPlusOne(length) == (length \div blockSize) + 1

\* size_t numBlocks, lines 66-67.
NumBlocks(length) ==
    LET n == (length + blockSize - 1) \div blockSize
    IN  IF n > 0 THEN n ELSE 1

\* As BlockLength, without the test of the last block.
BlockLengthFull(i, length) == blockSize

\* size_t blockLength of block i, lines 75-77.
BlockLength(i, length) ==
    LET blockStart == i * blockSize
        blockEnd   == blockStart + blockSize
    IN  IF blockEnd > length THEN length - blockStart ELSE blockSize

\* As PaddedByte, with the end of the message marked by a 0x80 byte.
PaddedByteMarked(message, i, blockLength, q, junk) ==
    IF q < blockLength
    THEN IF i * blockSize + q < Len(message)
         THEN message[i * blockSize + q + 1]
         ELSE junk
    ELSE IF q = blockLength THEN 128 ELSE 0

\* memset(paddedBlock, 0, blockSize) then memcpy(paddedBlock, message +
\* blockStart, blockLength): byte q (0-based) of the padded block. A byte
\* copied from beyond the message is junk.
PaddedByte(message, i, blockLength, q, junk) ==
    IF q < blockLength
    THEN IF i * blockSize + q < Len(message)
         THEN message[i * blockSize + q + 1]
         ELSE junk
    ELSE 0

\* As SubIndex, with the second four calls in the order of the first four.
SubIndexForward(k) == k % 4

\* The sub-block (0..3) that the k-th (0..7) hashBlock call of a block gets:
\* paddedBlock + 0, 8, 16, 24, then + 24, 16, 8, 0 (lines 87-96).
SubIndex(k) == IF k < 4 THEN k ELSE 7 - k

HexChars == <<"0", "1", "2", "3", "4", "5", "6", "7",
              "8", "9", "a", "b", "c", "d", "e", "f">>

\* %016lx of one word: 16 digits, the most significant first.
Hex16(w) ==
    [q \in 1 .. 16 |->
        LET lo == 4 * (16 - q)
        IN  HexChars[1 + Bit(w, lo) + 2 * Bit(w, lo + 1)
                       + 4 * Bit(w, lo + 2) + 8 * Bit(w, lo + 3)]]

\* snprintf(output, 65, "%016lx%016lx%016lx%016lx", finalHash[3], ..., finalHash[0]).
Render(finalHash) ==
    Hex16(finalHash[4]) \o Hex16(finalHash[3]) \o Hex16(finalHash[2]) \o Hex16(finalHash[1])

\* As EntryState, without the two assignments: the state is carried over.
EntryStateKept(cur0, cur1) == <<cur0, cur1>>

\* The mixer state a hash call starts from, whatever (cur0, cur1) the calls
\* before it left: lines 61-62.
EntryState(cur0, cur1) == <<Seed0, Seed1>>

\* hash(message, length, output) is entered: lines 59-70.
HashCall(t, m) ==
    /\ sched.cur = t
    /\ th[t].pc \in {"idle", "done"}
    /\ s0' = EntryState(s0, s1)[1]
    /\ s1' = EntryState(s0, s1)[2]
    /\ th' = [th EXCEPT ![t] =
                [Idle EXCEPT !.pc = "loop", !.caller = "hash",
                             !.message = m, !.length = Len(m),
                             !.numBlocks = NumBlocks(Len(m)), !.i = 0,
                             !.finalHash = <<Zero, Zero, Zero, Zero>>]]
    /\ mix' = [NoMix EXCEPT !.by = t, !.kind = "seed", !.pre0 = s0, !.pre1 = s1]
    /\ ref' = [ref EXCEPT !.stale = ref.set]
    /\ UNCHANGED <<hd, sched>>

\* The loop test succeeds and the block is padded: lines 73-84.
PadBlock(t) ==
    /\ sched.cur = t
    /\ th[t].pc = "loop"
    /\ th[t].i < th[t].numBlocks
    /\ \E junk \in JunkBytes :
         LET f  == th[t]
             bl == BlockLength(f.i, f.length)
         IN  th' = [th EXCEPT ![t] =
                      [f EXCEPT !.pc = "call", !.k = 0, !.blockLength = bl,
                                !.paddedBlock =
                                    [q \in 1 .. blockSize |->
                                        PaddedByte(f.message, f.i, bl, q - 1, junk)],
                                !.blockHash = <<>>,
                                !.reads = @ \cup {f.i * blockSize + q : q \in 0 .. bl - 1},
                                !.blocks = @ + 1,
                                !.calls = <<>>,
                                !.acc = f.finalHash]]
    /\ UNCHANGED <<s0, s1, mix, ref, hd, sched>>

\* The next of the eight hashBlock calls of the block is entered: line 38.
EnterHashBlock(t) ==
    /\ sched.cur = t
    /\ th[t].pc = "call"
    /\ th[t].k < 8
    /\ LET f   == th[t]
           off == SubIndex(f.k) * subBlockSize
       IN  th' = [th EXCEPT ![t] =
                    [f EXCEPT !.pc = "fwd", !.j = 0, !.result = Zero,
                              !.block = SubSeq(f.paddedBlock, off + 1, off + subBlockSize),
                              !.len = subBlockSize,
                              !.outs = <<>>, !.stuck = FALSE,
                              !.calls = Append(@, [sub |-> SubIndex(f.k),
                                                   pre |-> <<s0, s1>>])]]
    /\ UNCHANGED <<s0, s1, mix, ref, hd, sched>>

\* One Xorshift128X call by t on byte x, its value xored into result.
MixStep(t, x, nextPc, nextJ) ==
    \E r \in {Xorshift128X(s0, s1, Widen(x))} :
        /\ s0' = r.s0
        /\ s1' = r.s1
        /\ th' = [th EXCEPT ![t] =
                    [@ EXCEPT !.pc = nextPc, !.j = nextJ,
                              !.result = Xor(@, r.result),
                              !.outs = Append(@, r.result),
                              !.stuck = @ \/ (r.s0 = s0 /\ r.s1 = s1),
                              !.tainted = @ \/ mix.by \notin {0, t}]]
        /\ mix' = [by |-> t, kind |-> "mix", x |-> Widen(x),
                   pre0 |-> s0, pre1 |-> s1, result |-> r.result]

\* One iteration of the first loop of hashBlock: lines 41-43.
MixFwd(t) ==
    /\ sched.cur = t
    /\ th[t].pc = "fwd"
    /\ th[t].j < th[t].len
    /\ MixStep(t, th[t].block[th[t].j + 1], "fwd", th[t].j + 1)
    /\ UNCHANGED <<ref, hd, sched>>

\* The first loop ends and the second starts at i = length: line 46.
Turn(t) ==
    /\ sched.cur = t
    /\ th[t].pc = "fwd"
    /\ th[t].j >= th[t].len
    /\ th' = [th EXCEPT ![t] = [@ EXCEPT !.pc = "bwd", !.j = th[t].len]]
    /\ UNCHANGED <<s0, s1, mix, ref, hd, sched>>

\* One iteration of the second loop of hashBlock: lines 46-48.
MixBwd(t) ==
    /\ sched.cur = t
    /\ th[t].pc = "bwd"
    /\ th[t].j > 0
    /\ MixStep(t, th[t].block[th[t].j], "bwd", th[t].j - 1)
    /\ UNCHANGED <<ref, hd, sched>>

\* hashBlock returns to hash, which keeps the value as blockHash<k>: line 50.
ReturnToHash(t) ==
    /\ sched.cur = t
    /\ th[t].pc = "bwd"
    /\ th[t].j = 0
    /\ th[t].caller = "hash"
    /\ th' = [th EXCEPT ![t] =
                [@ EXCEPT !.pc = "call", !.k = @ + 1,
                          !.blockHash = Append(@, th[t].result),
                          !.calls = [@ EXCEPT ![Len(@)] =
                                       [sub |-> @.sub, pre |-> @.pre,
                                        post |-> <<s0, s1>>,
                                        result |-> th[t].result]]]]
    /\ UNCHANGED <<s0, s1, mix, ref, hd, sched>>

\* The eight values are combined into finalHash and the loop goes on:
\* lines 99-102 and the i++ of line 73.
Combine(t) ==
    /\ sched.cur = t
    /\ th[t].pc = "call"
    /\ th[t].k = 8
    /\ LET f == th[t]
       IN  th' = [th EXCEPT ![t] =
                    [f EXCEPT !.pc = "loop", !.i = @ + 1,
                              !.finalHash =
                                  [a \in 1 .. 4 |->
                                      Xor(f.finalHash[a],
                                          Xor(f.blockHash[a], f.blockHash[a + 4]))]]]
    /\ UNCHANGED <<s0, s1, mix, ref, hd, sched>>

\* The loop test fails and the digest is written: lines 73 and 106-107.
\* The history may keep the message and its digest for later calls.
Finish(t) ==
    /\ sched.cur = t
    /\ th[t].pc = "loop"
    /\ th[t].i >= th[t].numBlocks
    /\ LET out == Render(th[t].finalHash)
       IN  /\ th' = [th EXCEPT ![t] = [@ EXCEPT !.pc = "done", !.output = out]]
           /\ \E keep \in BOOLEAN :
                ref' = IF keep
                       THEN [set |-> TRUE, message |-> th[t].message,
                             output |-> out, stale |-> FALSE]
                       ELSE ref
    /\ UNCHANGED <<s0, s1, mix, hd, sched>>

\* hashBlock(block, length) is called from outside hash: line 38.
DirectCall(t, blk) ==
    /\ sched.cur = t
    /\ th[t].pc \in {"idle", "done"}
    /\ sched.direct < MaxDirect
    /\ th' = [th EXCEPT ![t] =
                [Idle EXCEPT !.pc = "fwd", !.caller = "direct",
                             !.block = blk, !.len = Len(blk)]]
    /\ sched' = [sched EXCEPT !.direct = @ + 1]
    /\ UNCHANGED <<s0, s1, mix, ref, hd>>

\* hashBlock returns to a caller other than hash: line 50.
ReturnDirect(t) ==
    /\ sched.cur = t
    /\ th[t].pc = "bwd"
    /\ th[t].j = 0
    /\ th[t].caller = "direct"
    /\ th' = [th EXCEPT ![t] = [@ EXCEPT !.pc = "done"]]
    /\ UNCHANGED <<s0, s1, mix, ref, hd, sched>>

HashStep(t) ==
    \/ PadBlock(t)
    \/ EnterHashBlock(t)
    \/ MixFwd(t)
    \/ Turn(t)
    \/ MixBwd(t)
    \/ ReturnToHash(t)
    \/ Combine(t)
    \/ Finish(t)

\* ------------------------------------------------- one caller, hash after hash

Init ==
    /\ s0 = StaticS0
    /\ s1 = StaticS1
    /\ th = [t \in Threads |-> Idle]
    /\ mix = NoMix
    /\ ref = NoRef
    /\ hd = NoHd
    /\ sched = NoSched

Next ==
    \/ \E m \in Messages : HashCall(1, m)
    \/ HashStep(1)

Spec == Init /\ [][Next]_vars

\* ------------------------------------------------------ properties of hash

\* The least b with b * blockSize >= n, and at least 1: the blocks a message
\* of n bytes needs.
BlocksNeeded(n) ==
    LET c == CHOOSE b \in 0 .. n : b * blockSize >= n /\ (b = 0 \/ (b - 1) * blockSize < n)
    IN  IF c = 0 THEN 1 ELSE c

\* C1: a completed hash call gives a message the digest that any earlier
\* completed call gave the same message, whatever calls were made in between
\* and whatever mixer state they left.
C1_SameDigest ==
    (th[1].pc = "done" /\ ref.set /\ ref.message = th[1].message)
        => th[1].output = ref.output

\* A later call has hashed a message again whose digest an earlier call gave.
C1_Witness ==
    /\ th[1].pc = "done"
    /\ ref.set
    /\ ref.stale
    /\ ref.message = th[1].message
    /\ Len(ref.message) > blockSize
    /\ th[1].output = ref.output

\* C5: hash pads exactly max(1, ceil(n / 32)) blocks of a message of n bytes
\* (one for n = 0, 31 and 32, two for n = 33): never more while it runs, and
\* exactly as many once it has returned, the loop counter ending at that count.
\* The call ends: until it has returned it has a next step, and its counters
\* (blocks, calls in the block, bytes in the call) stay within their limits.
C5_BlockCount ==
    LET f == th[1]
    IN  f.caller = "hash" =>
          /\ f.blocks <= BlocksNeeded(f.length)
          /\ f.i <= f.numBlocks
          /\ f.k <= 8
          /\ f.j <= f.len
          /\ f.pc # "done" => ENABLED HashStep(1)
          /\ f.pc = "done" =>
                /\ f.blocks = BlocksNeeded(f.length)
                /\ f.i = f.blocks
                /\ f.length = 0 => f.blocks = 1
                /\ f.length \in {31, 32} => f.blocks = 1
                /\ f.length = 33 => f.blocks = 2

\* A message of 33 bytes has been hashed in two blocks.
C5_Witness == th[1].pc = "done" /\ th[1].length = 33 /\ th[1].blocks = 2

\* C8: while block i is hashed, byte q of the padded block is byte i*32 + q of
\* the message where the message has one and 0 where it has none, and the copy
\* has read no byte at or beyond the length of the message.
C8_PaddedBlock ==
    LET f == th[1]
    IN  (f.caller = "hash" /\ f.pc \in {"call", "fwd", "bwd"}) =>
          /\ Len(f.paddedBlock) = blockSize
          /\ \A q \in 0 .. blockSize - 1 :
                f.paddedBlock[q + 1] =
                    IF f.i * blockSize + q < f.length
                    THEN f.message[f.i * blockSize + q + 1]
                    ELSE 0
          /\ f.blockLength \in 0 .. blockSize
          /\ \A r \in f.reads : r < f.length

\* The second block of a 33-byte message holds its last byte and 31 zeros.
C8_Witness ==
    LET f == th[1]
    IN  /\ f.pc = "call"
        /\ f.length = 33
        /\ f.i = 1
        /\ f.blockLength = 1
        /\ f.paddedBlock[1] = f.message[33]
        /\ f.paddedBlock[1] # 0
        /\ f.paddedBlock[2] = 0

\* The order of the sub-blocks in the eight hashBlock calls of a block.
CallOrder == <<0, 1, 2, 3, 3, 2, 1, 0>>

\* C9: the accumulators start at 0 and stay as they are while a block is
\* hashed; the hashBlock calls of a block take the sub-blocks in the order
\* 0, 1, 2, 3, 3, 2, 1, 0, each starting from the mixer state the one before
\* left; after the eighth, accumulator a has been xored once, with the value
\* of the forward call on sub-block a and of the reverse call on sub-block 3-a.
C9_EightCalls ==
    LET f == th[1]
    IN  f.caller = "hash" =>
          /\ (f.pc = "loop" /\ f.blocks = 0) => f.finalHash = <<Zero, Zero, Zero, Zero>>
          /\ f.pc \in {"call", "fwd", "bwd"} =>
                /\ f.finalHash = f.acc
                /\ Len(f.calls) <= 8
                /\ \A n \in 1 .. Len(f.calls) : f.calls[n].sub = CallOrder[n]
                /\ \A n \in 2 .. Len(f.calls) : f.calls[n].pre = f.calls[n - 1].post
          /\ (f.pc \in {"loop", "done"} /\ f.blocks > 0) =>
                /\ Len(f.calls) = 8
                /\ f.i = f.blocks
                /\ \A a \in 0 .. 3 :
                      /\ f.calls[a + 1].sub = a
                      /\ f.calls[a + 5].sub = 3 - a
                      /\ f.finalHash[a + 1] =
                            Xor(f.acc[a + 1],
                                Xor(f.calls[a + 1].result, f.calls[a + 5].result))

\* The second block of a two-block message has been combined into
\* accumulators that the first block had already changed.
C9_Witness ==
    LET f == th[1]
    IN  /\ f.pc = "loop"
        /\ f.blocks = 2
        /\ f.i = 2
        /\ Len(f.calls) = 8
        /\ f.acc # <<Zero, Zero, Zero, Zero>>
        /\ f.finalHash # f.acc

RECURSIVE MixAll(_, _, _)
MixAll(st, result, todo) ==
    IF todo = <<>> THEN [result |-> result, s0 |-> st[1], s1 |-> st[2]]
    ELSE CHOOSE out \in
            {MixAll(v[1], v[2], v[3]) :
                v \in {<<<<r.s0, r.s1>>, Xor(result, r.result), Tail(todo)>> :
                          r \in {Xorshift128X(st[1], st[2], Widen(Head(todo)))}}} : TRUE

Reverse(seq) == [q \in 1 .. Len(seq) |-> seq[Len(seq) + 1 - q]]

\* hashBlock(block, length) from the mixer state st: lines 37-51.
HashBlockFrom(st, block) ==
    CHOOSE out \in {MixAll(st, Zero, todo) : todo \in {block \o Reverse(block)}} : TRUE

\* The hashBlock calls k .. 7 of one block: the eight values and the state left.
RECURSIVE EightFrom(_, _, _, _)
EightFrom(st, paddedBlock, k, blockHash) ==
    IF k = 8 THEN [blockHash |-> blockHash, st |-> st]
    ELSE LET off == SubIndex(k) * subBlockSize
         IN  CHOOSE out \in
                {EightFrom(v[1], paddedBlock, v[2], v[3]) :
                    v \in {<<<<r.s0, r.s1>>, k + 1, Append(blockHash, r.result)>> :
                              r \in {HashBlockFrom(st, SubSeq(paddedBlock, off + 1,
                                                              off + subBlockSize))}}} : TRUE

\* The block loop of hash from block i on: lines 73-103.
RECURSIVE BlocksFrom(_, _, _, _)
BlocksFrom(st, message, i, finalHash) ==
    IF i >= NumBlocks(Len(message)) THEN finalHash
    ELSE CHOOSE out \in
            {BlocksFrom(v[1], message, v[2], v[3]) :
                v \in {<<e.st, i + 1,
                         [a \in 1 .. 4 |->
                             Xor(finalHash[a], Xor(e.blockHash[a], e.blockHash[a + 4]))]>> :
                          e \in {EightFrom(st, pb, 0, <<>>) :
                                    pb \in {[q \in 1 .. blockSize |->
                                               PaddedByte(message, i,
                                                          BlockLength(i, Len(message)),
                                                          q - 1, 0)]}}}} : TRUE

\* The digest hash writes for the message when nothing else touches s0 and s1.
HashAlone(message) ==
    CHOOSE out \in
        {Render(h) : h \in {BlocksFrom(EntryState(Zero, Zero), message, 0,
                                      <<Zero, Zero, Zero, Zero>>)}} : TRUE

\* ------------------------------------------ two callers, each hashing once

\* A caller that has not hashed yet calls hash.
ConcCall(t) ==
    /\ th[t].pc = "idle"
    /\ \E m \in ConcMessages : HashCall(t, m)

\* The running caller is preempted inside its hash call.
Preempt(t) ==
    /\ sched.cur = t
    /\ th[t].pc \notin {"idle", "done"}
    /\ sched.preempts < MaxPreempt
    /\ \E u \in Threads \ {t} :
          /\ th[u].pc # "done"
          /\ sched' = [sched EXCEPT !.cur = u, !.preempts = @ + 1]
    /\ UNCHANGED <<s0, s1, th, mix, ref, hd>>

\* A caller that is outside hash lets the other one run.
Yield(t) ==
    /\ sched.cur = t
    /\ th[t].pc \in {"idle", "done"}
    /\ \E u \in Threads \ {t} :
          /\ th[u].pc # "done"
          /\ sched' = [sched EXCEPT !.cur = u]
    /\ UNCHANGED <<s0, s1, th, mix, ref, hd>>

ConcNext ==
    \E t \in Threads :
        \/ ConcCall(t)
        \/ HashStep(t)
        \/ Preempt(t)
        \/ Yield(t)

ConcSpec == Init /\ [][ConcNext]_vars

\* The digest of each of the callers' messages when hashed on its own.
AloneDigest == [m \in ConcMessages |-> HashAlone(m)]

\* C2 as claimed: each of two concurrent hash calls works on a mixer state
\* of its own, no mixer call of one reading the state the other wrote, and
\* returns the digest its message gets when hashed on its own.
C2_AsClaimed ==
    \A t \in Threads :
        th[t].pc = "done" =>
            /\ ~th[t].tainted
            /\ th[t].output = AloneDigest[th[t].message]

\* ------------------------------------------------------- hammingDistance

Ones == [q \in 1 .. Limbs |-> 255]

\* The value of a hexadecimal digit, and -1 for any other character.
HexVal(c) ==
    CASE c = "0" -> 0 [] c = "1" -> 1 [] c = "2" -> 2 [] c = "3" -> 3
      [] c = "4" -> 4 [] c = "5" -> 5 [] c = "6" -> 6 [] c = "7" -> 7
      [] c = "8" -> 8 [] c = "9" -> 9
      [] c \in {"a", "A"} -> 10 [] c \in {"b", "B"} -> 11 [] c \in {"c", "C"} -> 12
      [] c \in {"d", "D"} -> 13 [] c \in {"e", "E"} -> 14 [] c \in {"f", "F"} -> 15
      [] OTHER -> -1

\* How many hexadecimal digits one %16lx takes from position pos (1-based):
\* those that follow one another there, and at most 16.
RECURSIVE Digits(_, _, _)
Digits(hex, pos, taken) ==
    IF taken < 16 /\ pos + taken <= Len(hex) /\ HexVal(hex[pos + taken]) >= 0
    THEN Digits(hex, pos, taken + 1)
    ELSE taken

\* The word that the n digits from position pos denote.
WordOf(hex, pos, n) ==
    LET FromRight(r) == IF r < n THEN HexVal(hex[pos + n - 1 - r]) ELSE 0
    IN  [q \in 1 .. Limbs |-> FromRight(2 * (q - 1)) + 16 * FromRight(2 * (q - 1) + 1)]

\* sscanf(hex, "%16lx%16lx%16lx%16lx", ...) from position pos with `left`
\* conversions to go: the words assigned, in order. The first conversion that
\* finds no digit ends the scan. (The inputs hold no white space, sign or 0x
\* prefix, which a conversion would skip or accept.)
RECURSIVE Scan(_, _, _)
Scan(hex, pos, left) ==
    IF left = 0 THEN <<>>
    ELSE CHOOSE out \in
            {IF n = 0 THEN <<>>
             ELSE <<WordOf(hex, pos, n)>> \o Scan(hex, pos + n, left - 1) :
                n \in {Digits(hex, pos, 0)}} : TRUE

\* As CountBits, shifting by two bits an iteration.
RECURSIVE CountBitsByTwo(_, _)
CountBitsByTwo(xorVal, distance) ==
    IF xorVal = Zero THEN distance
    ELSE CHOOSE out \in
            {CountBitsByTwo(v[1], v[2]) :
                v \in {<<Shr(xorVal, 2), distance + Bit(xorVal, 0)>>}} : TRUE

\* while (xorVal) { distance += xorVal & 1; xorVal >>= 1; }: lines 124-127.
RECURSIVE CountBits(_, _)
CountBits(xorVal, distance) ==
    IF xorVal = Zero THEN distance
    ELSE CHOOSE out \in
            {CountBits(v[1], v[2]) :
                v \in {<<Shr(xorVal, 1), distance + Bit(xorVal, 0)>>}} : TRUE

\* The groups of 16 characters that the sample digests are made of.
Groups ==
    {[q \in 1 .. 16 |-> "0"],
     [q \in 1 .. 16 |-> "f"],
     <<"8", "0", "1", "2", "3", "4", "5", "6", "7", "9", "a", "B", "c", "D", "e", "F">>}

\* Sample digests: three groups chosen freely, the fourth again the first.
SampleDigests == {a \o b \o c \o a : a, b, c \in Groups}

AllF == [q \in 1 .. 64 |-> "f"]

\* Inputs that are no digest: too short, a character short, a character
\* long, and with a character that is no hexadecimal digit.
Malformed ==
    {<<"x", "y", "z">>,
     SubSeq(AllF, 1, 63),
     AllF \o <<"f">>,
     [AllF EXCEPT ![20] = "g"]}

\* What the elements of bin1 or bin2 that sscanf did not assign may hold.
JunkArrays ==
    {[q \in 1 .. 4 |-> Zero],
     [q \in 1 .. 4 |-> Ones],
     [q \in 1 .. 4 |-> IF q % 2 = 0 THEN Zero ELSE Ones]}

\* uint64_t bin[4] after a sscanf that assigned the words of got: those
\* words, and any junk in the elements left unassigned.
Scanned(got) ==
    {[q \in 1 .. 4 |-> IF q <= Len(got) THEN got[q] ELSE junk[q]] : junk \in JunkArrays}

\* hammingDistance(hex1, hex2) is entered and scans both strings: lines 117-121.
HdCall(a, b) ==
    /\ hd.pc = "idle"
    /\ \E got1 \in {Scan(a, 1, 4)}, got2 \in {Scan(b, 1, 4)} :
          \E b1 \in Scanned(got1), b2 \in Scanned(got2) :
              hd' = [pc |-> "loop", hex1 |-> a, hex2 |-> b, bin1 |-> b1, bin2 |-> b2,
                     i |-> 0, distance |-> 0, outcome |-> "none"]
    /\ UNCHANGED <<s0, s1, th, mix, ref, sched>>

\* One iteration of the loop over the four words: lines 122-128.
HdIter ==
    /\ hd.pc = "loop"
    /\ hd.i < 4
    /\ hd' = [hd EXCEPT !.i = @ + 1,
                        !.distance = CountBits(Xor(hd.bin1[hd.i + 1], hd.bin2[hd.i + 1]),
                                               hd.distance)]
    /\ UNCHANGED <<s0, s1, th, mix, ref, sched>>

\* return distance: line 129. The function has no other way out.
HdReturn ==
    /\ hd.pc = "loop"
    /\ hd.i >= 4
    /\ hd' = [hd EXCEPT !.pc = "done", !.outcome = "int"]
    /\ UNCHANGED <<s0, s1, th, mix, ref, sched>>

DistNext ==
    \/ \E a, b \in SampleDigests \cup Malformed : HdCall(a, b)
    \/ HdIter
    \/ HdReturn

DistSpec == Init /\ [][DistNext]_vars

\* Exactly 64 characters, each a hexadecimal digit.
WellFormed(hex) == Len(hex) = 64 /\ \A q \in 1 .. 64 : HexVal(hex[q]) >= 0

\* Bit k of the digit at position q differs between the two strings.
DigitBitDiffers(a, b, q, k) ==
    (HexVal(a[q]) \div (2 ^ k)) % 2 # (HexVal(b[q]) \div (2 ^ k)) % 2

\* C3 as claimed: with an argument that is no well-formed digest,
\* hammingDistance ends in a MalformedDigest error and returns no integer.
C3_AsClaimed ==
    (hd.pc = "done" /\ (~WellFormed(hd.hex1) \/ ~WellFormed(hd.hex2)))
        => hd.outcome = "MalformedDigest"

\* C4: for two well-formed digests hammingDistance returns the number of the
\* 256 bit positions in which they differ, the words taken group by group in
\* order; the result lies in 0 .. 256.
C4_Distance ==
    (hd.pc = "done" /\ WellFormed(hd.hex1) /\ WellFormed(hd.hex2)) =>
        /\ hd.outcome = "int"
        /\ hd.distance \in 0 .. 256
        /\ hd.distance =
              Cardinality({v \in (1 .. 64) \X (0 .. 3) :
                              DigitBitDiffers(hd.hex1, hd.hex2, v[1], v[2])})

\* Two digests that agree in one group, differ in every bit of another and
\* in some bits of the rest have been compared.
C4_Witness ==
    /\ hd.pc = "done"
    /\ WellFormed(hd.hex1)
    /\ WellFormed(hd.hex2)
    /\ SubSeq(hd.hex1, 1, 16) = SubSeq(hd.hex2, 1, 16)
    /\ hd.bin1[2] = Zero
    /\ hd.bin2[2] = Ones
    /\ hd.distance > 64
    /\ hd.distance < 192

\* ------------------------------------- one caller, hashBlock called directly

MixNext ==
    \/ \E blk \in DirectBlocks : DirectCall(1, blk)
    \/ MixFwd(1)
    \/ Turn(1)
    \/ MixBwd(1)
    \/ ReturnDirect(1)

MixSpec == Init /\ [][MixNext]_vars

\* ------------------------------------------------- properties of the mixer

\* Bit p of w, and 0 where the word has no bit p.
BitAt(w, p) == IF p \in Bits THEN Bit(w, p) ELSE 0

\* Bit p of u ^ (u << 23), and 0 where the word has no bit p.
BOf(u, p) == IF p \in Bits THEN (Bit(u, p) + BitAt(u, p - 23)) % 2 ELSE 0

\* Bit by bit: n0 = ua ^ (x << 30) and n1 = b ^ ua ^ (b >> 18) ^ (ua >> 5),
\* where b = ub ^ (ub << 23).
MixRelation(ua, ub, x, n0, n1) ==
    \A p \in Bits :
        /\ Bit(n0, p) = (Bit(ua, p) + BitAt(x, p - 30)) % 2
        /\ Bit(n1, p) = (BOf(ub, p) + Bit(ua, p) + BOf(ub, p + 18) + BitAt(ua, p + 5)) % 2

\* C6 as claimed: a mixer call leaves s0' = s0 ^ (x << 30) and
\* s1' = b ^ s0 ^ (b >> 18) ^ (s0 >> 5) with b = s1 ^ (s1 << 23).
C6_AsClaimed ==
    mix.kind = "mix" => MixRelation(mix.pre0, mix.pre1, mix.x, s0, s1)

\* C6 as amended: a mixer call leaves s0' = s1 ^ (x << 30) and
\* s1' = b ^ s1 ^ (b >> 18) ^ (s1 >> 5) with b = s0 ^ (s0 << 23), on the
\* values before the call, in 64 bits with the bits shifted out dropped.
C6_MixerUpdate ==
    mix.kind = "mix" => MixRelation(mix.pre1, mix.pre0, mix.x, s0, s1)

\* A call with a non-zero byte on a state whose words differ and whose
\* s0 << 23 drops a set bit.
C6_Witness ==
    /\ mix.kind = "mix"
    /\ mix.x # Zero
    /\ mix.pre0 # mix.pre1
    /\ \E p \in Bits : p + 23 >= W /\ Bit(mix.pre0, p) = 1
    /\ MixRelation(mix.pre1, mix.pre0, mix.x, s0, s1)

\* The update of Xorshift128X maps the state (u0, u1) to itself on input x.
FixedPoint(u0, u1, x) ==
    /\ u0 = Xor(u1, Shl(x, 30))
    /\ LET b == Xor(u0, Shl(u0, 23))
       IN  Xor(b, Shr(b, 18)) = Shr(u1, 5)

\* C7 as claimed: in a hashBlock invocation every mixer call changes the
\* state and no two of its calls return the same value.
C7_AsClaimed ==
    LET f == th[1]
    IN  f.caller = "direct" =>
          /\ ~f.stuck
          /\ \A m, n \in 1 .. Len(f.outs) : m # n => f.outs[m] # f.outs[n]

\* C7 as amended: a mixer call leaves the state as it was exactly when that
\* state is the fixed point of the update for the byte; a hashBlock
\* invocation on zero bytes in the state the program starts in is at that
\* fixed point: every one of its calls returns 0 and leaves s0 = s1 = 0.
C7_AdvanceUnlessFixed ==
    LET f == th[1]
    IN  /\ mix.kind = "mix" =>
              ((s0 = mix.pre0 /\ s1 = mix.pre1)
                  <=> FixedPoint(mix.pre0, mix.pre1, mix.x))
        /\ (f.caller = "direct" /\ sched.direct = 1 /\ f.block = Zeros(f.len)) =>
              /\ s0 = Zero
              /\ s1 = Zero
              /\ \A n \in 1 .. Len(f.outs) : f.outs[n] = Zero
              /\ f.stuck = (Len(f.outs) > 0)

\* A second invocation, on eight zero bytes, has made its sixteen calls and
\* each of them changed the state.
C7_Witness ==
    LET f == th[1]
    IN  /\ f.caller = "direct"
        /\ f.pc = "done"
        /\ sched.direct = 2
        /\ f.block = Zeros(subBlockSize)
        /\ Len(f.outs) = 2 * subBlockSize
        /\ ~f.stuck
        /\ mix.kind = "mix"
        /\ ~FixedPoint(mix.pre0, mix.pre1, mix.x)

====
